---- MODULE Spec2Model ----
(***************************************************************************)
(* kubectl-xctx: run one kubectl command across every context whose name   *)
(* matches a pattern (main.go).  The model follows execute and the two     *)
(* dispatch loops, runSequential and runParallel, with kubectlRunner as    *)
(* the external collaborator whose answers are chosen nondeterministically.*)
(* Strings are sequences of one-character strings.                         *)
(***************************************************************************)
EXTENDS Integers, Sequences, FiniteSets, TLC

\* ---------------------------------------------------------------- bounds
\* longest candidate list (lines of "kubectl config get-contexts -o name")
MaxLines == 2
\* largest --timeout value tried (time is counted in units of the clock)
MaxTimeout == 1
\* how far the clock runs while an invocation without a deadline is in flight
MaxTime == 1

\* ---------------------------------------------------------------- strings
NL == "\n"
SP == " "
\* the placeholder of the header template, one token of the template
Placeholder == "{context}"

IsSpace(c) == c \in {NL, SP}

RECURSIVE TrimLeft(_)
TrimLeft(s) ==
    IF s # <<>> /\ IsSpace(Head(s)) THEN TrimLeft(Tail(s)) ELSE s

RECURSIVE TrimRight(_)
TrimRight(s) ==
    IF s # <<>> /\ IsSpace(s[Len(s)]) THEN TrimRight(SubSeq(s, 1, Len(s) - 1)) ELSE s

\* strings.TrimSpace
TrimSpace(s) == TrimRight(TrimLeft(s))

\* strings.Split(s, "\n"): always at least one field, the empty string included
RECURSIVE SplitFrom(_, _)
SplitFrom(s, cur) ==
    IF s = <<>> THEN <<cur>>
    ELSE IF Head(s) = NL THEN <<cur>> \o SplitFrom(Tail(s), <<>>)
    ELSE SplitFrom(Tail(s), Append(cur, Head(s)))

Split(s) == SplitFrom(s, <<>>)

\* strings.ReplaceAll(header, "{context}", name) on a tokenised template
RECURSIVE ReplaceAll(_, _)
ReplaceAll(h, name) ==
    IF h = <<>> THEN <<>>
    ELSE (IF Head(h) = Placeholder THEN name ELSE <<Head(h)>>) \o ReplaceAll(Tail(h), name)

\* the text a candidate source prints for a list of lines
RECURSIVE Join(_)
Join(ls) ==
    IF ls = <<>> THEN <<>>
    ELSE IF Len(ls) = 1 THEN ls[1]
    ELSE ls[1] \o <<NL>> \o Join(Tail(ls))

\* ---------------------------------------------------------------- inputs
\* lines the candidate source may print: two names and a blank line
Lines == { <<"a">>, <<"b">>, <<>> }

SeqsUpTo(S, n) == UNION { [1..k -> S] : k \in 0..n }

\* what "kubectl config get-contexts -o name" may print
SourceOutputs == { Join(ls) : ls \in SeqsUpTo(Lines, MaxLines) }

\* the patterns tried: one that selects, one that matches every name, and
\* "[", which does not compile
Patterns == { <<"a">>, <<>>, <<"[">> }

\* variant: the compile error is ignored
CompileAny(p) == TRUE

\* regexp.Compile: TRUE when the pattern compiles
Compile(p) == p # <<"[">>

\* (*Regexp).MatchString, unanchored as in Go
MatchString(p, s) ==
    IF p = <<>> THEN TRUE
    ELSE IF p = <<".">> THEN \E i \in 1..Len(s) : s[i] # NL
    ELSE \E i \in 1..Len(s) : s[i] = p[1]

Timeouts == -1..MaxTimeout

Headers == { <<>>, <<Placeholder, "#", Placeholder>> }

ArgLists == { <<>>, <<"get">> }

\* ---------------------------------------------------------------- results
NoErr == "nil"
ExitErr == "exit status 1"
KilledErr == "signal: killed"

\* type result struct
Result(name, so, se, e) == [ctxName |-> name, stdout |-> so, stderr |-> se, err |-> e]

\* zero value of result, the content of a slot nobody wrote
ZeroResult == Result(<<>>, <<>>, <<>>, NoErr)

\* what a kubectl process may return on its own: (stdout, stderr, err)
NaturalReturns ==
    { <<<<"o">>, <<>>, NoErr>>,
      <<<<"o">>, <<"w">>, NoErr>>,
      <<<<>>, <<"e">>, ExitErr>> }

\* what exec.CommandContext returns once the context is done: the process is killed
KilledReturn == <<<<>>, <<>>, KilledErr>>

\* one write to a stream: what is written, its bytes, and the cause it reports
Write(kind, text, cause) == [kind |-> kind, text |-> text, cause |-> cause]

\* error values returned by execute and the run functions
Err(kind, name, n) == [kind |-> kind, ctxName |-> name, count |-> n]
NilErr == Err("nil", <<>>, 0)

\* ---------------------------------------------------------------- contexts
\* (context.Context, context.CancelFunc) of one invocation
NoCtx == [made |-> FALSE, hasDeadline |-> FALSE, deadline |-> 0,
          cancelCalled |-> FALSE, expired |-> FALSE]

\* variant: a zero duration arms a deadline too
maybeWithTimeoutGE(d, t) ==
    IF d >= 0
    THEN [made |-> TRUE, hasDeadline |-> TRUE, deadline |-> t + d,
          cancelCalled |-> FALSE, expired |-> FALSE]
    ELSE [made |-> TRUE, hasDeadline |-> FALSE, deadline |-> 0,
          cancelCalled |-> FALSE, expired |-> FALSE]

\* variant: every duration other than zero arms a deadline
maybeWithTimeoutNonZero(d, t) ==
    IF d # 0
    THEN [made |-> TRUE, hasDeadline |-> TRUE, deadline |-> t + d,
          cancelCalled |-> FALSE, expired |-> FALSE]
    ELSE [made |-> TRUE, hasDeadline |-> FALSE, deadline |-> 0,
          cancelCalled |-> FALSE, expired |-> FALSE]

maybeWithTimeout(d, t) ==
    IF d > 0
    THEN [made |-> TRUE, hasDeadline |-> TRUE, deadline |-> t + d,
          cancelCalled |-> FALSE, expired |-> FALSE]
    ELSE [made |-> TRUE, hasDeadline |-> FALSE, deadline |-> 0,
          cancelCalled |-> FALSE, expired |-> FALSE]

\* ctx.Done() is closed: the deadline has passed
CtxDone(c, t) == c.hasDeadline /\ t >= c.deadline

\* variant: the process is started without the context (exec.Command)
kubectlRunnerNoCtx(c, t) == NaturalReturns

\* variant: the process never exits by itself, only a deadline ends it
kubectlRunnerHangs(c, t) ==
    IF CtxDone(c, t) THEN {KilledReturn} ELSE {}

\* the returns kubectlRunner can produce for a context at time t
kubectlRunner(c, t) ==
    IF CtxDone(c, t) THEN {KilledReturn} ELSE NaturalReturns

\* runInContext: the record built from one return of kubectlRunner
runInContext(name, ret) == Result(name, ret[1], ret[2], ret[3])

\* ---------------------------------------------------------------- state
VARIABLES
    pattern, source, kubectlArgs, parallel, list, timeout, failFast, header,
    pc, contexts, srcCalls, idx, failed, results, writes, wstate, ctx, calls,
    started, outOfOrder, produced, mode, emitted, out, errOut, retErr, now, exitCode

inputs == <<pattern, source, kubectlArgs, parallel, list, timeout, failFast, header>>
loopv == <<idx, failed>>
workv == <<results, writes, wstate, ctx, calls, started, outOfOrder, produced>>
streams == <<emitted, out, errOut>>
vars == <<inputs, pc, contexts, srcCalls, loopv, workv, mode, streams, retErr, now, exitCode>>

N == Len(contexts)

\* variant: a matching line is kept even when it is empty
RECURSIVE FilterKeepEmpty(_, _)
FilterKeepEmpty(names, p) ==
    IF names = <<>> THEN <<>>
    ELSE (IF MatchString(p, Head(names)) THEN <<Head(names)>> ELSE <<>>)
         \o FilterKeepEmpty(Tail(names), p)

\* variant: every non-empty line is kept, matching or not
RECURSIVE FilterKeepAll(_, _)
FilterKeepAll(names, p) ==
    IF names = <<>> THEN <<>>
    ELSE (IF Head(names) # <<>> THEN <<Head(names)>> ELSE <<>>) \o FilterKeepAll(Tail(names), p)

\* matchingContexts, lines 185-191: the names kept from the source's output
RECURSIVE Filter(_, _)
Filter(names, p) ==
    IF names = <<>> THEN <<>>
    ELSE (IF Head(names) # <<>> /\ MatchString(p, Head(names))
          THEN <<Head(names)>> ELSE <<>>) \o Filter(Tail(names), p)

matchingContexts(p, text) == Filter(Split(TrimSpace(text)), p)

Init ==
    /\ pattern \in Patterns
    /\ source \in [ok : {TRUE}, text : SourceOutputs] \cup {[ok |-> FALSE, text |-> <<>>]}
    /\ kubectlArgs \in ArgLists
    /\ parallel \in BOOLEAN
    /\ list \in BOOLEAN
    /\ timeout \in Timeouts
    /\ failFast \in BOOLEAN
    /\ header \in Headers
    /\ pc = "execute"
    /\ contexts = <<>>
    /\ srcCalls = 0
    /\ idx = 0
    /\ failed = 0
    /\ results = <<>>
    /\ writes = <<>>
    /\ wstate = <<>>
    /\ ctx = <<>>
    /\ calls = <<>>
    /\ started = <<>>
    /\ outOfOrder = FALSE
    /\ produced = <<>>
    /\ mode = "none"
    /\ emitted = <<>>
    /\ out = <<>>
    /\ errOut = <<>>
    /\ retErr = NilErr
    /\ now = 0
    /\ exitCode = -1

\* execute returns e: control goes back to main
Return(e) ==
    /\ retErr' = e
    /\ pc' = "returned"

\* ---------------------------------------------------------------- execute
\* lines 147-150: the pattern does not compile
ExecuteInvalidPattern ==
    /\ pc = "execute"
    /\ ~Compile(pattern)
    /\ Return(Err("invalid pattern", <<>>, 0))
    /\ UNCHANGED <<inputs, contexts, srcCalls, loopv, workv, streams, now, exitCode, mode>>

\* lines 147, 152, 180: the pattern compiles and the candidate source is queried
ExecuteQuery ==
    /\ pc = "execute"
    /\ Compile(pattern)
    /\ srcCalls' = srcCalls + 1
    /\ pc' = "queried"
    /\ UNCHANGED <<inputs, contexts, loopv, workv, streams, retErr, now, exitCode, mode>>

\* lines 181-183, 153-155: the candidate source failed
ExecuteSourceError ==
    /\ pc = "queried"
    /\ ~source.ok
    /\ Return(Err("failed to list kubectl contexts", <<>>, 0))
    /\ UNCHANGED <<inputs, contexts, srcCalls, loopv, workv, streams, now, exitCode, mode>>

\* lines 185-191: the matching names become the selection
ExecuteSelect ==
    /\ pc = "queried"
    /\ source.ok
    /\ contexts' = matchingContexts(pattern, source.text)
    /\ pc' = "selected"
    /\ UNCHANGED <<inputs, srcCalls, loopv, workv, streams, retErr, now, exitCode, mode>>

\* variant: the empty selection is not detected
NeverNoMatch(cs) == FALSE

\* line 157: the selection is empty
NoMatch(cs) == Len(cs) = 0

\* lines 157-160: nothing matched, a notice on the diagnostic stream
ExecuteNoMatch ==
    /\ pc = "selected"
    /\ NoMatch(contexts)
    /\ errOut' = Append(errOut, Write("nomatch", pattern, NoErr))
    /\ Return(NilErr)
    /\ UNCHANGED <<inputs, contexts, srcCalls, loopv, workv, emitted, out, now, exitCode, mode>>

\* variant: --list is honoured only when no kubectl command is given
ListUnlessArgs == list /\ Len(kubectlArgs) = 0

\* line 162: the test of the list flag
ListRequested == list

\* variant: an empty kubectl command is forwarded like any other
NeverNoCommand(args) == FALSE

\* line 169: the test for an empty kubectl command
NoCommand(args) == Len(args) = 0

\* lines 162-167: --list prints the names and stops
ExecuteList ==
    /\ pc = "selected"
    /\ ~NoMatch(contexts)
    /\ ListRequested
    /\ out' = out \o [i \in 1..Len(contexts) |-> Write("name", contexts[i], NoErr)]
    /\ Return(NilErr)
    /\ UNCHANGED <<inputs, contexts, srcCalls, loopv, workv, emitted, errOut, now, exitCode, mode>>

\* lines 169-171: no kubectl command to forward
ExecuteNoCommand ==
    /\ pc = "selected"
    /\ ~NoMatch(contexts)
    /\ ~ListRequested
    /\ NoCommand(kubectlArgs)
    /\ Return(Err("no kubectl command provided", <<>>, 0))
    /\ UNCHANGED <<inputs, contexts, srcCalls, loopv, workv, streams, now, exitCode, mode>>

\* the per-target tables of a run over the selection
StartRun ==
    /\ results' = [i \in 1..N |-> ZeroResult]
    /\ writes' = [i \in 1..N |-> 0]
    /\ wstate' = [i \in 1..N |-> "idle"]
    /\ ctx' = [i \in 1..N |-> NoCtx]
    /\ calls' = [i \in 1..N |-> 0]
    /\ started' = [i \in 1..N |-> 0]
    /\ produced' = [i \in 1..N |-> ZeroResult]
    /\ idx' = 1
    /\ failed' = 0

\* variant: --fail-fast sends a parallel run to the sequential loop
UseParallelUnlessFailFast == parallel /\ ~failFast

\* lines 173-176: dispatch on the mode
UseParallel == parallel

ExecuteDispatch ==
    /\ pc = "selected"
    /\ ~NoMatch(contexts)
    /\ ~ListRequested
    /\ ~NoCommand(kubectlArgs)
    /\ StartRun
    /\ pc' = IF UseParallel THEN (IF N > 0 THEN "spawn" ELSE "wait") ELSE "seq"
    /\ mode' = IF UseParallel THEN "parallel" ELSE "sequential"
    /\ UNCHANGED <<inputs, contexts, srcCalls, outOfOrder, streams, retErr, now, exitCode>>

\* ---------------------------------------------------------------- printResult
\* lines 200-203, 210-212: the writes to the normal stream
\* variant: the separator line is written whether or not there is a header
PrintOutAlwaysBlank(r, h) ==
    (IF h # <<>> THEN <<Write("header", ReplaceAll(h, r.ctxName), NoErr)>> ELSE <<>>)
    \o <<Write("stdout", r.stdout, NoErr)>>
    \o <<Write("blank", <<>>, NoErr)>>

PrintOut(r, h) ==
    (IF h # <<>> THEN <<Write("header", ReplaceAll(h, r.ctxName), NoErr)>> ELSE <<>>)
    \o <<Write("stdout", r.stdout, NoErr)>>
    \o (IF h # <<>> THEN <<Write("blank", <<>>, NoErr)>> ELSE <<>>)

\* variant: the failure notice is not written
PrintErrQuiet(r) ==
    IF Len(r.stderr) > 0 THEN <<Write("stderr", r.stderr, NoErr)>> ELSE <<>>

\* lines 204-209: the writes to the diagnostic stream
PrintErr(r) ==
    (IF Len(r.stderr) > 0 THEN <<Write("stderr", r.stderr, NoErr)>> ELSE <<>>)
    \o (IF r.err # NoErr THEN <<Write("failed", r.ctxName, r.err)>> ELSE <<>>)

printResult(r) ==
    /\ out' = out \o PrintOut(r, header)
    /\ errOut' = errOut \o PrintErr(r)
    /\ emitted' = Append(emitted, r)

\* variant: the loop skips every other position
SkipIdx(i) == i + 2

\* lines 217, 238, 250: a range loop moves to the next position
NextIdx(i) == i + 1

\* variant: the counter is set, not incremented
CountLastFailure(f, r) == IF r.err # NoErr THEN 1 ELSE f

\* lines 222-223, 252-253: the failure counter after record r
CountFailure(f, r) == IF r.err # NoErr THEN f + 1 ELSE f

\* lines 229-232, 256-259: the error a finished run returns
AggregateError(f) == IF f > 0 THEN Err("failed", <<>>, f) ELSE NilErr

\* variant: the deadline of every invocation is counted from the start of the run
InvokeCumulative(i) ==
    /\ ctx' = [ctx EXCEPT ![i] = maybeWithTimeout(timeout, 0)]
    /\ wstate' = [wstate EXCEPT ![i] = "running"]
    /\ calls' = [calls EXCEPT ![i] = @ + 1]
    /\ started' = [started EXCEPT ![i] = now]
    /\ UNCHANGED <<outOfOrder, produced>>

\* variant: one context, made for the first invocation, is used by all
InvokeShared(i) ==
    /\ ctx' = [ctx EXCEPT ![i] =
                  IF \E j \in 1..N : ctx[j].made
                  THEN ctx[CHOOSE j \in 1..N : ctx[j].made]
                  ELSE maybeWithTimeout(timeout, now)]
    /\ wstate' = [wstate EXCEPT ![i] = "running"]
    /\ calls' = [calls EXCEPT ![i] = @ + 1]
    /\ started' = [started EXCEPT ![i] = now]
    /\ UNCHANGED <<outOfOrder, produced>>

\* lines 218, 242: the invocation of position i starts under a fresh context
Invoke(i) ==
    /\ ctx' = [ctx EXCEPT ![i] = maybeWithTimeout(timeout, now)]
    /\ wstate' = [wstate EXCEPT ![i] = "running"]
    /\ calls' = [calls EXCEPT ![i] = @ + 1]
    /\ started' = [started EXCEPT ![i] = now]
    /\ UNCHANGED <<outOfOrder, produced>>

\* variant: cancel is called only after an invocation without error
ReleaseOnSuccess(i, r) ==
    /\ ctx' = [ctx EXCEPT ![i].cancelCalled = (r.err = NoErr),
                          ![i].expired = CtxDone(ctx[i], now),
                          ![i].deadline = 0]
    /\ wstate' = [wstate EXCEPT ![i] = "finished"]
    /\ started' = [started EXCEPT ![i] = 0]
    /\ outOfOrder' = (outOfOrder \/ \E j \in 1..(i - 1) : wstate[j] # "finished")
    /\ produced' = [produced EXCEPT ![i] = r]
    /\ UNCHANGED calls

\* lines 220, 243: cancel() once kubectlRunner has returned
Release(i, r) ==
    /\ ctx' = [ctx EXCEPT ![i].cancelCalled = TRUE, ![i].expired = CtxDone(ctx[i], now),
                          ![i].deadline = 0]
    /\ wstate' = [wstate EXCEPT ![i] = "finished"]
    /\ started' = [started EXCEPT ![i] = 0]
    /\ outOfOrder' = (outOfOrder \/ \E j \in 1..(i - 1) : wstate[j] # "finished")
    /\ produced' = [produced EXCEPT ![i] = r]
    /\ UNCHANGED calls

\* ---------------------------------------------------------------- runSequential
\* variant: the loop starts an invocation without waiting for the one before
SeqInvokeAhead ==
    /\ pc = "seq"
    /\ \E i \in 1..N : wstate[i] = "idle" /\ Invoke(i)
    /\ UNCHANGED <<inputs, pc, contexts, srcCalls, loopv, results, writes, streams,
                   retErr, now, exitCode, mode>>

\* lines 217-219: the next target is invoked
SeqInvoke ==
    /\ pc = "seq"
    /\ idx <= N
    /\ wstate[idx] = "idle"
    /\ Invoke(idx)
    /\ UNCHANGED <<inputs, pc, contexts, srcCalls, loopv, results, writes, streams,
                   retErr, now, exitCode, mode>>

\* variant: the loop stops at a failed record whatever --fail-fast says
StopOnAnyFailure(r) == r.err # NoErr

\* variant: the loop never stops early
NeverStop(r) == FALSE

\* line 224: the loop stops at a failed record
StopOnFailure(r) == failFast /\ r.err # NoErr

\* lines 219-228: the invocation returns, its record is printed and counted
SeqReturn ==
    /\ pc = "seq"
    /\ idx <= N
    /\ wstate[idx] = "running"
    /\ \E ret \in kubectlRunner(ctx[idx], now) :
         LET r == runInContext(contexts[idx], ret) IN
         /\ Release(idx, r)
         /\ printResult(r)
         /\ failed' = CountFailure(failed, r)
         /\ IF StopOnFailure(r)
            THEN /\ Return(Err("stopped", contexts[idx], failed'))
                 /\ idx' = idx
            ELSE /\ idx' = NextIdx(idx)
                 /\ UNCHANGED <<pc, retErr>>
    /\ UNCHANGED <<inputs, contexts, srcCalls, results, writes, now, exitCode, mode>>

\* lines 229-232: the loop is over
SeqDone ==
    /\ pc = "seq"
    /\ idx > N
    /\ Return(AggregateError(failed))
    /\ UNCHANGED <<inputs, contexts, srcCalls, loopv, workv, streams, now, exitCode, mode>>

\* ---------------------------------------------------------------- runParallel
\* variant: a worker writes the next free slot in order of arrival
SlotByArrival(i) == Cardinality({ j \in 1..N : wstate[j] = "finished" }) + 1

\* variant: every worker writes the first slot
SlotShared(i) == 1

\* the slot worker i writes, line 244
SlotOf(i) == i

\* lines 238-246: one goroutine is launched per target
ParSpawn ==
    /\ pc = "spawn"
    /\ idx <= N
    /\ wstate' = [wstate EXCEPT ![idx] = "spawned"]
    /\ idx' = NextIdx(idx)
    /\ pc' = IF NextIdx(idx) > N THEN "wait" ELSE "spawn"
    /\ UNCHANGED <<inputs, contexts, srcCalls, failed, results, writes, ctx, calls, started,
                   outOfOrder, produced, streams, retErr, now, exitCode, mode>>

\* lines 241-244: worker i starts its invocation
WorkerInvoke(i) ==
    /\ pc \in {"spawn", "wait"}
    /\ wstate[i] = "spawned"
    /\ Invoke(i)
    /\ UNCHANGED <<inputs, pc, contexts, srcCalls, loopv, results, writes, streams,
                   retErr, now, exitCode, mode>>

\* lines 244, 243, 241: worker i stores its record, cancels and signals the group
WorkerReturn(i) ==
    /\ pc \in {"spawn", "wait"}
    /\ wstate[i] = "running"
    /\ \E ret \in kubectlRunner(ctx[i], now) :
         LET r == runInContext(contexts[i], ret) IN
         /\ results' = [results EXCEPT ![SlotOf(i)] = r]
         /\ writes' = [writes EXCEPT ![SlotOf(i)] = @ + 1]
         /\ Release(i, r)
    /\ UNCHANGED <<inputs, pc, contexts, srcCalls, loopv, streams,
                   retErr, now, exitCode, mode>>

\* variant: the wait returns as soon as one worker has called Done
WaitReturnsAny == \E i \in 1..N : wstate[i] = "finished"

\* line 247: wg.Wait returns once every worker has called Done
WaitReturns == \A i \in 1..N : wstate[i] = "finished"

ParJoin ==
    /\ pc = "wait"
    /\ WaitReturns
    /\ pc' = "emit"
    /\ idx' = 1
    /\ failed' = 0
    /\ UNCHANGED <<inputs, contexts, srcCalls, workv, streams, retErr, now, exitCode, mode>>

\* variant: the parallel loop prints the failed records without counting them
ParEmitUncounted ==
    /\ pc = "emit"
    /\ idx <= N
    /\ printResult(results[idx])
    /\ failed' = failed
    /\ idx' = NextIdx(idx)
    /\ UNCHANGED <<inputs, pc, contexts, srcCalls, workv, retErr, now, exitCode, mode>>

\* lines 250-255: the next slot is printed and counted
ParEmit ==
    /\ pc = "emit"
    /\ idx <= N
    /\ printResult(results[idx])
    /\ failed' = CountFailure(failed, results[idx])
    /\ idx' = NextIdx(idx)
    /\ UNCHANGED <<inputs, pc, contexts, srcCalls, workv, retErr, now, exitCode, mode>>

\* lines 256-259
ParDone ==
    /\ pc = "emit"
    /\ idx > N
    /\ Return(AggregateError(failed))
    /\ UNCHANGED <<inputs, contexts, srcCalls, loopv, workv, streams, now, exitCode, mode>>

\* ---------------------------------------------------------------- time
Running(i) == i \in 1..Len(wstate) /\ wstate[i] = "running"

\* time passes while an invocation is in flight
Tick ==
    /\ \E i \in 1..Len(wstate) :
         /\ wstate[i] = "running"
         /\ \/ now < MaxTime
            \/ ctx[i].hasDeadline /\ now < ctx[i].deadline
    /\ now' = now + 1
    /\ UNCHANGED <<inputs, pc, contexts, srcCalls, loopv, workv, streams, retErr, exitCode, mode>>

\* ---------------------------------------------------------------- main
\* variant: only the aggregate error of a run is reported by the exit status
ExitStatusOnlyAggregate(e) == IF e.kind = "failed" THEN 1 ELSE 0

\* lines 32-35: os.Exit(1) on an error, the status of a normal return otherwise
ExitStatus(e) == IF e # NilErr THEN 1 ELSE 0

\* lines 32-35: a non-nil error is printed and the process exits with status 1
MainExit ==
    /\ pc = "returned"
    /\ pc' = "exited"
    /\ exitCode' = ExitStatus(retErr)
    /\ errOut' = IF retErr # NilErr
                 THEN Append(errOut, Write("fatal", retErr.ctxName, retErr.kind))
                 ELSE errOut
    /\ UNCHANGED <<inputs, contexts, srcCalls, loopv, workv, emitted, out, retErr, now, mode>>

Next ==
    \/ ExecuteInvalidPattern
    \/ ExecuteQuery
    \/ ExecuteSourceError
    \/ ExecuteSelect
    \/ ExecuteNoMatch
    \/ ExecuteList
    \/ ExecuteNoCommand
    \/ ExecuteDispatch
    \/ SeqInvoke
    \/ SeqReturn
    \/ SeqDone
    \/ ParSpawn
    \/ \E i \in 1..N : WorkerInvoke(i)
    \/ \E i \in 1..N : WorkerReturn(i)
    \/ ParJoin
    \/ ParEmit
    \/ ParDone
    \/ Tick
    \/ MainExit

Spec == Init /\ [][Next]_vars

\* the steps of the main goroutine: execute, the loops of the two run
\* functions, and main's exit
MainStep ==
    \/ ExecuteInvalidPattern \/ ExecuteQuery \/ ExecuteSourceError \/ ExecuteSelect
    \/ ExecuteNoMatch \/ ExecuteList \/ ExecuteNoCommand \/ ExecuteDispatch
    \/ SeqInvoke \/ SeqDone
    \/ ParSpawn \/ ParJoin \/ ParEmit \/ ParDone
    \/ MainExit

\* the Go scheduler runs every goroutine that can take a step, and the clock
\* advances
Scheduling ==
    /\ WF_vars(MainStep)
    /\ \A i \in 1..MaxLines : WF_vars(i \in 1..N /\ WorkerInvoke(i))
    /\ WF_vars(Tick)

\* every invocation of kubectl eventually returns, on its own or killed at
\* its deadline (cmd.Run, lines 22-29)
InvocationsReturn ==
    /\ WF_vars(SeqReturn)
    /\ \A i \in 1..MaxLines : WF_vars(i \in 1..N /\ WorkerReturn(i))

\* the initial states with the inputs a run's return does not depend on held
\* fixed: no header, and a pattern that matches every name or does not compile
LiveInit == Init /\ header = <<>> /\ pattern \in {<<>>, <<"[">>}

LiveSpec == LiveInit /\ [][Next]_vars /\ Scheduling /\ InvocationsReturn

\* ---------------------------------------------------------------- properties
Ran == mode # "none"
RunReturned == Ran /\ pc \in {"returned", "exited"}
Finished(i) == wstate[i] = "finished"
FailedIn(rs) == { k \in 1..Len(rs) : rs[k].err # NoErr }
\* position i was abandoned at its deadline
TimedOut(i) == Finished(i) /\ ctx[i].expired
\* the lines of the candidate source's output that are names matching the pattern
RawLines == Split(source.text)
Candidates == { k \in 1..Len(RawLines) : RawLines[k] # <<>> /\ MatchString(pattern, RawLines[k]) }

\* C1: a parallel run that has returned emitted exactly N records, the k-th
\* being the record of the k-th selected target, whatever the completion order.
C1_ParallelSelectionOrder ==
    (mode = "parallel" /\ RunReturned) =>
        /\ Len(emitted) = N
        /\ \A k \in 1..N : emitted[k] = produced[k] /\ emitted[k].ctxName = contexts[k]

C1_Witness ==
    /\ mode = "parallel" /\ RunReturned
    /\ N = 2 /\ contexts[1] # contexts[2]
    /\ outOfOrder
    /\ emitted[1].ctxName = contexts[1] /\ emitted[2].ctxName = contexts[2]

\* C2: a sequential run without fail-fast that has returned invoked every
\* target exactly once, in order, and emitted N records in selection order,
\* whatever failed.
C2_SequentialRunsAll ==
    /\ mode = "sequential" => \A i \in 1..N : calls[i] <= 1
    /\ (mode = "sequential" /\ ~failFast /\ RunReturned) =>
        /\ \A i \in 1..N : calls[i] = 1
        /\ Len(emitted) = N
        /\ \A k \in 1..N : emitted[k] = produced[k] /\ emitted[k].ctxName = contexts[k]

C2_Witness ==
    /\ mode = "sequential" /\ ~failFast /\ RunReturned
    /\ N = 2
    /\ emitted[1].err # NoErr /\ emitted[2].err = NoErr

\* C3: in a sequential fail-fast run, once position k has failed no later
\* position is invoked or emitted, the record of k is the last one emitted,
\* and the run has returned an error naming target k with count 1.
C3_FailFastStops ==
    \A k \in 1..Len(wstate) :
        (mode = "sequential" /\ failFast /\ Finished(k) /\ produced[k].err # NoErr) =>
            /\ \A j \in (k + 1)..N : calls[j] = 0 /\ wstate[j] = "idle"
            /\ Len(emitted) = k /\ emitted[k] = produced[k]
            /\ pc \in {"returned", "exited"}
            /\ retErr = Err("stopped", contexts[k], 1)

C3_Witness ==
    /\ mode = "sequential" /\ failFast /\ pc = "returned"
    /\ N = 2
    /\ Finished(1) /\ produced[1].err # NoErr
    /\ calls[2] = 0

\* C4: a run not stopped by fail-fast returns the aggregate error carrying the
\* number of emitted records with a failure, and no error when there is none.
C4_AggregateCount ==
    (RunReturned /\ retErr.kind # "stopped") =>
        LET cnt == Cardinality(FailedIn(emitted)) IN
        retErr = IF cnt > 0 THEN Err("failed", <<>>, cnt) ELSE NilErr

C4_Witness ==
    /\ RunReturned /\ mode = "sequential" /\ ~failFast
    /\ Cardinality(FailedIn(emitted)) = 2
    /\ retErr.kind = "failed" /\ retErr.count = 2

\* C5 as stated: after any completed run, under every flag setting, there is
\* one record per selected target, in selection order.
C5_OneRecordPerTarget ==
    RunReturned =>
        /\ Len(emitted) = N
        /\ \A k \in 1..N : emitted[k].ctxName = contexts[k]

\* C5 amended: the emitted records are those of a prefix of the selection, in
\* order; the prefix is the whole selection unless the run was stopped by
\* fail-fast, and then it ends with the first failed record.
C5_RecordsFormPrefix ==
    RunReturned =>
        LET m == Len(emitted) IN
        /\ m <= N
        /\ \A k \in 1..m : emitted[k] = produced[k] /\ emitted[k].ctxName = contexts[k]
        /\ retErr.kind # "stopped" => m = N
        /\ retErr.kind = "stopped" =>
            /\ mode = "sequential" /\ failFast
            /\ m >= 1 /\ emitted[m].err # NoErr
            /\ \A k \in 1..(m - 1) : emitted[k].err = NoErr

C5_Witness ==
    /\ RunReturned /\ pc = "exited"
    /\ retErr.kind = "stopped"
    /\ Len(emitted) < N

\* C6: with --parallel every target is invoked exactly once and gets a record
\* whatever the others returned, and records and aggregate error do not
\* depend on --fail-fast; the join is not passed while a worker is pending, and
\* under --fail-fast, once some worker has failed, every spawned worker can
\* still start and every running one can still return.
C6_ParallelIgnoresFailFast ==
    /\ (parallel /\ Ran) => mode = "parallel"
    /\ (parallel /\ Ran) =>
        \A i \in 1..N : wstate[i] \in {"spawned", "running"} => pc \in {"spawn", "wait"}
    /\ (parallel /\ failFast /\ Ran /\ \E j \in 1..N : Finished(j) /\ produced[j].err # NoErr) =>
        \A i \in 1..N :
            /\ wstate[i] = "spawned" => ENABLED WorkerInvoke(i)
            /\ wstate[i] = "running" => ENABLED WorkerReturn(i)
    /\ (parallel /\ RunReturned) =>
        /\ \A i \in 1..N : calls[i] = 1 /\ Finished(i)
        /\ Len(emitted) = N
        /\ \A k \in 1..N : emitted[k] = produced[k]
        /\ retErr = AggregateError(Cardinality(FailedIn(produced)))

C6_Witness ==
    /\ parallel /\ failFast /\ RunReturned
    /\ N = 2
    /\ ~outOfOrder
    /\ produced[1].err # NoErr /\ produced[2].err = NoErr
    /\ calls[2] = 1
    /\ retErr = Err("failed", <<>>, 1)

\* C7: with a timeout of zero no context has a deadline, none is ever done,
\* and no invocation is killed however long it runs.
C7_ZeroTimeoutNoDeadline ==
    timeout = 0 =>
        \A i \in 1..Len(ctx) :
            ctx[i].made =>
                /\ ~ctx[i].hasDeadline
                /\ ~CtxDone(ctx[i], now)
                /\ wstate[i] = "running" => kubectlRunner(ctx[i], now) = NaturalReturns
                /\ Finished(i) => ~ctx[i].expired /\ produced[i].err # KilledErr

C7_Witness ==
    /\ timeout = 0
    /\ \E i \in 1..Len(ctx) :
        /\ Finished(i)
        /\ N = 1 /\ now = MaxTime
        /\ produced[i].err = NoErr

\* C8 as stated: a context has a deadline exactly when the timeout is not zero.
C8_DeadlineIffNonZero ==
    \A i \in 1..Len(ctx) :
        ctx[i].made => (ctx[i].hasDeadline <=> timeout # 0)

\* C8 amended: a timeout above zero binds the invocation to a deadline of that
\* duration, and an invocation still running at its deadline is killed; a
\* timeout of zero or below yields a context without a deadline.
C8_DeadlineIffPositive ==
    \A i \in 1..Len(ctx) :
        ctx[i].made =>
            /\ timeout > 0 =>
                /\ ctx[i].hasDeadline
                /\ wstate[i] = "running" =>
                    /\ ctx[i].deadline = started[i] + timeout
                    /\ now >= started[i] + timeout =>
                           kubectlRunner(ctx[i], now) = {KilledReturn}
                    /\ now < started[i] + timeout =>
                           kubectlRunner(ctx[i], now) = NaturalReturns
                /\ Finished(i) => (ctx[i].expired <=> produced[i].err = KilledErr)
            /\ timeout <= 0 => ~ctx[i].hasDeadline /\ ~ctx[i].expired

C8_Witness ==
    /\ timeout > 0
    /\ \E i \in 1..Len(ctx) :
        /\ Finished(i)
        /\ ctx[i].expired
        /\ produced[i].err = KilledErr

\* C9: an invocation abandoned at its deadline still yields a record of its
\* target with a failure; once the run has returned that record was emitted
\* and the returned error counts it.
C9_TimeoutYieldsFailedRecord ==
    \A i \in 1..Len(ctx) :
        TimedOut(i) =>
            /\ produced[i].ctxName = contexts[i]
            /\ produced[i].err # NoErr
            /\ RunReturned =>
                /\ i <= Len(emitted) /\ emitted[i] = produced[i]
                /\ retErr.kind \in {"failed", "stopped"}
                /\ retErr.count >= 1
                /\ retErr.kind = "failed" =>
                       retErr.count >= Cardinality({ j \in 1..N : TimedOut(j) })

C9_Witness ==
    /\ RunReturned /\ N = 2
    /\ TimedOut(1) /\ ~TimedOut(2)
    /\ produced[2].err = NoErr
    /\ retErr = Err("failed", <<>>, 1)

\* C10: when no candidate name matches the pattern, execute has invoked
\* kubectl for no target, has written the notice and returns no error,
\* whatever the flags and the kubectl arguments.
C10_NoMatchIsNotice ==
    (pc \in {"returned", "exited"} /\ Compile(pattern) /\ source.ok /\ Candidates = {}) =>
        /\ mode = "none"
        /\ calls = <<>> /\ emitted = <<>> /\ out = <<>>
        /\ retErr = NilErr
        /\ Len(errOut) = 1 /\ errOut[1] = Write("nomatch", pattern, NoErr)

C10_Witness ==
    /\ pc = "exited" /\ Compile(pattern) /\ source.ok /\ Candidates = {}
    /\ source.text # <<>>
    /\ parallel /\ failFast /\ ~list /\ timeout > 0 /\ kubectlArgs # <<>>
    /\ Len(errOut) = 1 /\ errOut[1].kind = "nomatch"

\* matchingContexts has just returned the selection to execute
Selected == pc = "selected" /\ Compile(pattern) /\ source.ok
\* the k-th matching line of the source's output, counted from the top
KthCandidate(k) ==
    CHOOSE j \in Candidates : Cardinality({ i \in Candidates : i <= j }) = k

\* the one pattern of Patterns that is not a regular expression
BadPattern == pattern = <<"[">>

\* C11: a pattern that does not compile makes execute return an error without
\* querying the candidate source or invoking kubectl for a target; a source
\* that fails makes execute return an error without any per-target invocation.
C11_PreflightFailure ==
    /\ BadPattern => srcCalls = 0 /\ mode = "none" /\ calls = <<>>
    /\ ~source.ok => mode = "none" /\ calls = <<>> /\ contexts = <<>>
    /\ (pc \in {"returned", "exited"} /\ BadPattern) =>
        /\ retErr = Err("invalid pattern", <<>>, 0)
        /\ emitted = <<>> /\ out = <<>>
    /\ (pc \in {"returned", "exited"} /\ ~BadPattern /\ ~source.ok) =>
        /\ retErr = Err("failed to list kubectl contexts", <<>>, 0)
        /\ srcCalls = 1
        /\ emitted = <<>> /\ out = <<>>

C11_Witness ==
    /\ pc = "returned" /\ BadPattern
    /\ source.ok /\ Len(source.text) = 3
    /\ ~list /\ kubectlArgs # <<>>
    /\ retErr.kind = "invalid pattern" /\ srcCalls = 0

\* C12: the selection is the subsequence of the source's lines that are names
\* matching the pattern: as many entries as matching lines, the k-th entry
\* being the k-th matching line.
C12_SelectionIsMatchingSubsequence ==
    Selected =>
        /\ Len(contexts) = Cardinality(Candidates)
        /\ \A k \in 1..Len(contexts) : contexts[k] = RawLines[KthCandidate(k)]
        /\ \A k \in 1..Len(contexts) : MatchString(pattern, contexts[k])

C12_Witness ==
    /\ Selected
    /\ Len(RawLines) = 2 /\ Candidates = {2}
    /\ RawLines[1] # <<>>
    /\ contexts = <<RawLines[2]>>

\* writes to the normal stream per record
PerRecord == IF header = <<>> THEN 1 ELSE 3

\* C13: for every record, the normal stream gets a header line and a trailing
\* blank line exactly when the header template is non-empty: with an empty
\* template only the captured output is written; with a non-empty one the
\* header, with each placeholder replaced by the target's name, comes first,
\* then the captured output, then the blank line.
C13_HeaderIffTemplate ==
    Ran =>
        /\ Len(out) = PerRecord * Len(emitted)
        /\ (\E i \in 1..Len(out) : out[i].kind \in {"header", "blank"})
               <=> (header # <<>> /\ emitted # <<>>)
        /\ header = <<>> =>
               \A k \in 1..Len(emitted) :
                   out[k] = Write("stdout", emitted[k].stdout, NoErr)
        /\ header # <<>> =>
               \A k \in 1..Len(emitted) :
                   /\ out[3 * k - 2] =
                          Write("header",
                                emitted[k].ctxName \o <<"#">> \o emitted[k].ctxName, NoErr)
                   /\ out[3 * k - 1] = Write("stdout", emitted[k].stdout, NoErr)
                   /\ out[3 * k] = Write("blank", <<>>, NoErr)

C13_Witness ==
    /\ Ran /\ header # <<>>
    /\ Len(emitted) = 2 /\ Len(out) = 6
    /\ out[1].text = <<"a", "#", "a">>
    /\ out[4].text = <<"b", "#", "b">>
    /\ out[6].kind = "blank"

\* the failed and the noisy records presented so far, and what the diagnostic
\* stream holds of each kind
FailedRecords == SelectSeq(emitted, LAMBDA r : r.err # NoErr)
NoisyRecords == SelectSeq(emitted, LAMBDA r : Len(r.stderr) > 0)
Notices == SelectSeq(errOut, LAMBDA w : w.kind = "failed")
Diagnostics == SelectSeq(errOut, LAMBDA w : w.kind = "stderr")

\* C14: captured diagnostics and failure notices go to the diagnostic stream
\* only; a record with no diagnostics and no failure writes nothing there; and
\* each failed record gets exactly one notice naming its target, written
\* before the run returns.
C14_StreamsSeparate ==
    Ran =>
        /\ \A i \in 1..Len(out) : out[i].kind \in {"header", "stdout", "blank"}
        /\ \A i \in 1..Len(errOut) : errOut[i].kind \in {"stderr", "failed", "fatal"}
        /\ Len(Notices) = Len(FailedRecords)
        /\ \A k \in 1..Len(Notices) :
               Notices[k] = Write("failed", FailedRecords[k].ctxName, FailedRecords[k].err)
        /\ Len(Diagnostics) = Len(NoisyRecords)
        /\ \A k \in 1..Len(Diagnostics) :
               Diagnostics[k] = Write("stderr", NoisyRecords[k].stderr, NoErr)
        /\ pc # "exited" => Len(errOut) = Len(Notices) + Len(Diagnostics)
        /\ pc = "exited" => Len(errOut) = Len(Notices) + Len(Diagnostics)
                                + (IF retErr # NilErr THEN 1 ELSE 0)

C14_Witness ==
    /\ pc = "returned" /\ Ran
    /\ Len(emitted) = 2
    /\ emitted[1].err # NoErr /\ emitted[1].stderr = <<"e">>
    /\ emitted[2].err = NoErr /\ emitted[2].stderr = <<>>
    /\ errOut = << Write("stderr", <<"e">>, NoErr),
                   Write("failed", emitted[1].ctxName, emitted[1].err) >>
    /\ retErr.kind = "failed"

\* the pre-flight steps of execute succeeded
PreflightOk == ~BadPattern /\ source.ok
Returned == pc \in {"returned", "exited"}

\* C15: with the list flag set there is never a per-target invocation; execute
\* queries the source once, prints the selected names in selection order and
\* returns no error, whatever the other flags and the kubectl arguments are.
C15_ListOnlyPrintsNames ==
    list =>
        /\ mode = "none" /\ calls = <<>> /\ emitted = <<>>
        /\ (Returned /\ PreflightOk) =>
               /\ srcCalls = 1
               /\ retErr = NilErr
               /\ Len(out) = Cardinality(Candidates)
               /\ out = [k \in 1..Len(contexts) |-> Write("name", contexts[k], NoErr)]
               /\ \A k \in 1..Len(out) : out[k].text = RawLines[KthCandidate(k)]

C15_Witness ==
    /\ list /\ pc = "returned" /\ PreflightOk
    /\ kubectlArgs # <<>> /\ parallel /\ failFast /\ timeout > 0
    /\ Len(out) = 2 /\ out[1].text # out[2].text
    /\ retErr = NilErr

\* C16: with a match, the list flag off and no kubectl arguments, execute
\* returns an error and invokes kubectl for no target, in either mode.
C16_NoCommandIsError ==
    (Returned /\ PreflightOk /\ ~list /\ kubectlArgs = <<>> /\ Candidates # {}) =>
        /\ retErr = Err("no kubectl command provided", <<>>, 0)
        /\ mode = "none" /\ calls = <<>> /\ emitted = <<>> /\ out = <<>>

C16_Witness ==
    /\ pc = "returned" /\ PreflightOk
    /\ Cardinality(Candidates) = 2
    /\ ~list /\ kubectlArgs = <<>> /\ parallel
    /\ retErr.kind = "no kubectl command provided"

\* C17: the exit status is non-zero exactly when the error of the run is
\* non-nil: after a pre-flight failure, a missing command, a fail-fast stop or a
\* run with a failed target; it is zero after a run with no failed target, a
\* list run and a no-match run.
C17_ExitStatusIffError ==
    /\ pc # "exited" => exitCode = -1
    /\ pc = "exited" =>
        /\ exitCode \in {0, 1}
        /\ exitCode # 0 <=> retErr # NilErr
        /\ exitCode # 0 <=>
               \/ BadPattern
               \/ ~source.ok
               \/ Candidates # {} /\ ~list /\ kubectlArgs = <<>>
               \/ Ran /\ FailedIn(emitted) # {}
        /\ (Ran /\ FailedIn(emitted) = {}) => exitCode = 0
        /\ (PreflightOk /\ list) => exitCode = 0
        /\ (PreflightOk /\ Candidates = {}) => exitCode = 0

C17_Witness ==
    /\ pc = "exited" /\ exitCode = 1
    /\ mode = "sequential" /\ failFast
    /\ retErr.kind = "stopped"
    /\ Len(emitted) = 1 /\ N = 2

Parallel == mode = "parallel"
Unfinished == { i \in 1..N : ~Finished(i) }

\* C18: in a parallel run, as long as one worker has not finished writing its
\* slot, the run is still at the join or before it: no record has been read
\* and presented, nothing is written to either stream and no failure is
\* counted; the emission and the return happen with every worker finished.
C18_JoinIsBarrier ==
    Parallel =>
        /\ Unfinished # {} =>
               /\ pc \in {"spawn", "wait"}
               /\ emitted = <<>> /\ out = <<>> /\ errOut = <<>>
               /\ failed = 0
        /\ pc \in {"emit", "returned", "exited"} => Unfinished = {}
        /\ Len(emitted) > 0 => \A i \in 1..N : results[i] = produced[i]

C18_Witness ==
    /\ Parallel /\ pc = "wait" /\ N = 2
    /\ Finished(2) /\ produced[2].err # NoErr
    /\ wstate[1] = "running"
    /\ emitted = <<>> /\ failed = 0

\* C19: in a parallel run the slot table has one slot per selected target;
\* a slot has been written once when the worker of its position has finished
\* and not at all before, it then holds the record that worker produced for
\* the target at that position, and an unwritten slot holds the zero record.
C19_WorkerOwnsItsSlot ==
    Parallel =>
        /\ Len(results) = N /\ Len(writes) = N
        /\ \A i \in 1..N :
               /\ writes[i] = (IF Finished(i) THEN 1 ELSE 0)
               /\ Finished(i) =>
                      /\ results[i] = produced[i]
                      /\ results[i].ctxName = contexts[i]
               /\ ~Finished(i) => results[i] = ZeroResult
        /\ pc \in {"emit", "returned", "exited"} =>
               \A i \in 1..N : writes[i] = 1 /\ results[i].ctxName = contexts[i]

C19_Witness ==
    /\ Parallel /\ pc = "emit" /\ N = 2
    /\ outOfOrder
    /\ writes = <<1, 1>>
    /\ results[1].ctxName = <<"a">> /\ results[2].ctxName = <<"b">>
    /\ results[1].err # results[2].err

\* C20: in a parallel run with a timeout every worker has a deadline of its
\* own, counted from its own start; while it is not reached the invocation
\* can return whatever kubectl returns, whether or not a sibling has been
\* killed at its deadline; a worker that finished within its deadline carries
\* what its kubectl returned, never the kill of a deadline, so a sibling whose
\* kubectl succeeded yields a record without failure.
C20_DeadlinePerWorker ==
    (Parallel /\ timeout > 0) =>
        \A j \in 1..N :
            /\ wstate[j] = "running" =>
                   /\ ctx[j].hasDeadline /\ ~ctx[j].cancelCalled
                   /\ ctx[j].deadline = started[j] + timeout
                   /\ now < ctx[j].deadline => kubectlRunner(ctx[j], now) = NaturalReturns
            /\ (Finished(j) /\ ~ctx[j].expired) =>
                   /\ produced[j].err # KilledErr
                   /\ <<produced[j].stdout, produced[j].stderr, produced[j].err>>
                          \in NaturalReturns
            /\ (Finished(j) /\ produced[j].err = KilledErr) => ctx[j].expired

C20_Witness ==
    /\ Parallel /\ timeout > 0 /\ N = 2 /\ pc = "wait"
    /\ TimedOut(1) /\ produced[1].err = KilledErr
    /\ ~outOfOrder
    /\ Finished(2) /\ ~ctx[2].expired
    /\ produced[2].err = NoErr

Sequential == mode = "sequential"
Invoked(i) == wstate[i] \in {"running", "finished"}
InFlight == { i \in 1..N : wstate[i] = "running" }

\* C21: in a sequential run at most one invocation is in flight; when the
\* invocation of a target has started, every earlier target has finished and
\* its record has been presented; the records presented are those of the
\* finished targets, in order; and a run stopped by fail-fast has presented
\* the record of the failing target.
C21_SequentialOneAtATime ==
    Sequential =>
        /\ Cardinality(InFlight) <= 1
        /\ ~outOfOrder
        /\ Len(emitted) = Cardinality({ i \in 1..N : Finished(i) })
        /\ \A i \in 1..N :
               Invoked(i) =>
                   \A j \in 1..(i - 1) :
                       /\ Finished(j)
                       /\ j <= Len(emitted)
                       /\ emitted[j] = produced[j]
        /\ \A i \in 1..N : Finished(i) => emitted[i] = produced[i]
        /\ retErr.kind = "stopped" =>
               /\ emitted # <<>>
               /\ emitted[Len(emitted)].err # NoErr
               /\ emitted[Len(emitted)].ctxName = retErr.ctxName
               /\ InFlight = {}

C21_Witness ==
    /\ Sequential /\ pc = "seq" /\ N = 2
    /\ InFlight = {2}
    /\ Len(emitted) = 1
    /\ emitted[1] = produced[1] /\ emitted[1].ctxName = contexts[1]
    /\ emitted[1].err # NoErr

\* C22: no selected name is empty, so no invocation is made for an empty
\* target and every record produced or presented names a non-empty target,
\* also when the pattern matches the empty string and the source's output is
\* empty or has blank lines.
C22_TargetsNonEmpty ==
    /\ \A k \in 1..Len(contexts) : contexts[k] # <<>>
    /\ \A k \in 1..Len(emitted) : emitted[k].ctxName # <<>>
    /\ Ran =>
           \A i \in 1..N :
               /\ calls[i] > 0 => contexts[i] # <<>>
               /\ Finished(i) => produced[i].ctxName # <<>>
    /\ pc = "selected" => (contexts = <<>> <=> Candidates = {})

C22_Witness ==
    /\ pattern = <<>>
    /\ \E k \in 1..Len(RawLines) : RawLines[k] = <<>>
    /\ RunReturned /\ N = 1
    /\ emitted = <<produced[1]>>
    /\ emitted[1].ctxName # <<>>

\* C23: a context is made for exactly the targets that were invoked; once the
\* invocation of a target has returned its cancel function has been called,
\* whether it succeeded, failed or was killed at its deadline; so when a run
\* returns, in either mode and also after a fail-fast stop, no context made
\* for it is left unreleased.
C23_CancelAlwaysCalled ==
    Ran =>
        /\ \A i \in 1..N :
               /\ ctx[i].made <=> calls[i] > 0
               /\ ctx[i].made <=> Invoked(i)
               /\ Finished(i) => ctx[i].cancelCalled
               /\ ctx[i].cancelCalled => ctx[i].made
        /\ pc \in {"returned", "exited"} =>
               \A i \in 1..N : ctx[i].made => ctx[i].cancelCalled

C23_Witness ==
    /\ Sequential /\ pc = "returned" /\ N = 2
    /\ retErr.kind = "stopped"
    /\ TimedOut(1) /\ produced[1].err = KilledErr
    /\ ctx[1].made /\ ctx[1].cancelCalled
    /\ ~ctx[2].made /\ calls[2] = 0

\* what a run over the records rs writes to the normal stream, to the
\* diagnostic stream, and returns, as a function of the records and the
\* header alone
RECURSIVE NormalWrites(_)
NormalWrites(rs) ==
    IF rs = <<>> THEN <<>> ELSE PrintOut(Head(rs), header) \o NormalWrites(Tail(rs))
RECURSIVE DiagnosticWrites(_)
DiagnosticWrites(rs) ==
    IF rs = <<>> THEN <<>> ELSE PrintErr(Head(rs)) \o DiagnosticWrites(Tail(rs))
AggregateOf(rs) ==
    IF FailedIn(rs) = {} THEN NilErr ELSE Err("failed", <<>>, Cardinality(FailedIn(rs)))
\* the run is one the comparison is about: parallel, or sequential without fail-fast
Comparable == RunReturned /\ (Parallel \/ (Sequential /\ ~failFast))

\* C24: a returned parallel run and a returned sequential run without
\* fail-fast have written to the normal stream, written to the diagnostic
\* stream and returned what one and the same function gives for the target
\* list, the header and the per-target outcomes; so for equal targets, header
\* and outcomes the two modes agree on all three.
C24_ModesAgree ==
    Comparable =>
        /\ \A i \in 1..N : produced[i].ctxName = contexts[i]
        /\ out = NormalWrites(produced)
        /\ pc = "returned" => errOut = DiagnosticWrites(produced)
        /\ pc = "exited" =>
               errOut = DiagnosticWrites(produced)
                        \o (IF retErr # NilErr
                            THEN <<Write("fatal", retErr.ctxName, retErr.kind)>>
                            ELSE <<>>)
        /\ retErr = AggregateOf(produced)

C24_Witness ==
    /\ Comparable /\ Parallel /\ pc = "returned" /\ N = 2
    /\ outOfOrder /\ failFast
    /\ header # <<>>
    /\ produced[1].err = NoErr /\ produced[1].stderr # <<>>
    /\ produced[2].err # NoErr
    /\ Len(out) = 6 /\ Len(errOut) = 3
    /\ retErr = Err("failed", <<>>, 1)

\* the run has returned: a sequential run with its loop over or stopped, a
\* parallel run past the join with every record presented
RunEnded ==
    /\ pc \in {"returned", "exited"}
    /\ Sequential => retErr.kind \in {"nil", "failed", "stopped"}
    /\ Parallel => (Len(emitted) = N /\ Unfinished = {})

\* C25: if every invocation eventually returns, a dispatched run eventually
\* returns: a sequential run with its loop over or stopped by fail-fast, a
\* parallel run past the join with all N records presented. A run never
\* returns while an invocation is in flight, and with a timeout of zero no
\* deadline ever ends an invocation that does not return by itself.
C25_RunReturns ==
    /\ Ran ~> RunEnded
    /\ [](Ran => (InFlight # {} => pc \notin {"returned", "exited"}))
    /\ [](Ran => (timeout = 0 => \A i \in InFlight : ~CtxDone(ctx[i], now)))

C25_Witness ==
    /\ Parallel /\ pc = "returned" /\ N = 2
    /\ TimedOut(1) /\ produced[1].err = KilledErr
    /\ produced[2].err = NoErr
    /\ Len(emitted) = 2

\* C26: in a sequential run with a timeout the deadline of a target is its
\* own start plus the timeout, however much time the earlier targets took;
\* until then its invocation can return whatever kubectl returns, also after
\* an earlier target was killed at its deadline; and a target that finished
\* within its deadline carries what its kubectl returned, never the kill of
\* a deadline.
C26_SequentialTimeoutPerTarget ==
    (Sequential /\ timeout > 0) =>
        /\ \A i \in InFlight :
               /\ ctx[i].hasDeadline
               /\ ctx[i].deadline = started[i] + timeout
               /\ now < ctx[i].deadline => kubectlRunner(ctx[i], now) = NaturalReturns
        /\ \A i \in 1..N :
               /\ (Finished(i) /\ ~ctx[i].expired) =>
                      <<produced[i].stdout, produced[i].stderr, produced[i].err>>
                          \in NaturalReturns
               /\ (Finished(i) /\ produced[i].err = KilledErr) => ctx[i].expired

C26_Witness ==
    /\ Sequential /\ timeout > 0 /\ N = 2 /\ ~failFast
    /\ TimedOut(1) /\ produced[1].err = KilledErr
    /\ now >= timeout
    /\ Finished(2) /\ ~ctx[2].expired
    /\ produced[2].err = NoErr
    /\ pc = "returned" /\ retErr = Err("failed", <<>>, 1)

====
